---- MODULE Spec2Model ----
(***************************************************************************)
(* Register-level drivers for three I2C sensors: BMP280 (bmp280.rs),       *)
(* CCS811 (ccs811.rs) and TMP102 (tmp102.rs).                              *)
(*                                                                         *)
(* The drivers are single threaded; every public method is one action.     *)
(* The I2C transport (rppal) is external: every bus exchange of a method   *)
(* draws its outcome (failure, or the bytes returned) from a sample set.   *)
(* A Rust panic (expect on an Err/None, an arithmetic overflow in a build  *)
(* with overflow checks, a division by zero) aborts the process.           *)
(*                                                                         *)
(* Rust integers are fixed width; TLC's integers are 32 bit, so the i32    *)
(* and i64 arithmetic of the BMP280 compensation is carried out on         *)
(* arbitrary precision integers (sign and magnitude, magnitude as a        *)
(* little-endian sequence of base-LimbBase limbs) and wrapped to the       *)
(* width of the Rust type after every operation.                           *)
(***************************************************************************)
EXTENDS Integers, Sequences, FiniteSets, TLC

\* ------------------------------------------------------------------------
\* Natural numbers as little-endian limb sequences without leading zeros.

\* limbs of 15 bits: a product of two limbs fits a 32-bit integer
LimbBase == 2^15
LimbsOf(k) == k \div 15
BitsOf(k) == k % 15

RECURSIVE Pow2(_)
Pow2(k) == IF k = 0 THEN 1 ELSE 2 * Pow2(k - 1)

RECURSIVE Norm(_)
Norm(a) ==
    IF a = <<>> THEN <<>>
    ELSE IF a[Len(a)] = 0 THEN Norm(SubSeq(a, 1, Len(a) - 1))
    ELSE a

RECURSIVE NAddC(_, _, _)
NAddC(a, b, c) ==
    IF a = <<>> /\ b = <<>> THEN (IF c = 0 THEN <<>> ELSE <<c>>)
    ELSE LET x == IF a = <<>> THEN 0 ELSE Head(a)
             y == IF b = <<>> THEN 0 ELSE Head(b)
             s == x + y + c
             ta == IF a = <<>> THEN <<>> ELSE Tail(a)
             tb == IF b = <<>> THEN <<>> ELSE Tail(b)
         IN  <<s % LimbBase>> \o NAddC(ta, tb, s \div LimbBase)

NAdd(a, b) == NAddC(a, b, 0)

\* a - b - w for a >= b + w, not normalised
RECURSIVE NSubB(_, _, _)
NSubB(a, b, w) ==
    IF a = <<>> THEN <<>>
    ELSE LET y == IF b = <<>> THEN 0 ELSE Head(b)
             d == Head(a) - y - w
             tb == IF b = <<>> THEN <<>> ELSE Tail(b)
         IN  IF d < 0 THEN <<d + LimbBase>> \o NSubB(Tail(a), tb, 1)
             ELSE <<d>> \o NSubB(Tail(a), tb, 0)

NSub(a, b) == Norm(NSubB(a, b, 0))

\* -1, 0, 1 as a < b, a = b, a > b (both normalised)
RECURSIVE NCmpTop(_, _, _)
NCmpTop(a, b, i) ==
    IF i = 0 THEN 0
    ELSE IF a[i] < b[i] THEN -1
    ELSE IF a[i] > b[i] THEN 1
    ELSE NCmpTop(a, b, i - 1)

NCmp(a, b) ==
    IF Len(a) < Len(b) THEN -1
    ELSE IF Len(a) > Len(b) THEN 1
    ELSE NCmpTop(a, b, Len(a))

\* a * d + c for a small factor 0 <= d < LimbBase, not normalised
RECURSIVE NMulSmallC(_, _, _)
NMulSmallC(a, d, c) ==
    IF a = <<>> THEN (IF c = 0 THEN <<>> ELSE <<c>>)
    ELSE LET p == Head(a) * d + c
         IN  <<p % LimbBase>> \o NMulSmallC(Tail(a), d, p \div LimbBase)

NMulSmall(a, d) == Norm(NMulSmallC(a, d, 0))

RECURSIVE NMul(_, _)
NMul(a, b) ==
    IF a = <<>> \/ b = <<>> THEN <<>>
    ELSE Norm(NAdd(NMulSmallC(a, Head(b), 0),
                   IF Tail(b) = <<>> THEN <<>> ELSE <<0>> \o NMul(a, Tail(b))))

\* floor(a / d) for a small divisor 0 < d < LimbBase; i runs from the top limb down
RECURSIVE NDivSmallR(_, _, _, _)
NDivSmallR(a, d, i, r) ==
    IF i = 0 THEN <<>>
    ELSE LET n == r * LimbBase + a[i]
         IN  NDivSmallR(a, d, i - 1, n % d) \o <<n \div d>>

NDivSmall(a, d) == Norm(NDivSmallR(a, d, Len(a), 0))

RECURSIVE Zeros(_)
Zeros(n) == IF n = 0 THEN <<>> ELSE <<0>> \o Zeros(n - 1)

NShl(a, k) ==
    IF a = <<>> THEN <<>>
    ELSE Zeros(LimbsOf(k)) \o NMulSmall(a, Pow2(BitsOf(k)))

NShr(a, k) ==
    LET q == LimbsOf(k)
    IN  IF Len(a) <= q THEN <<>>
        ELSE NDivSmall(SubSeq(a, q + 1, Len(a)), Pow2(BitsOf(k)))

\* a mod 2^k
NLow(a, k) ==
    LET q == LimbsOf(k)
        r == BitsOf(k)
    IN  IF Len(a) <= q THEN a
        ELSE Norm(SubSeq(a, 1, q) \o <<a[q + 1] % Pow2(r)>>)

NPow2(k) == Zeros(LimbsOf(k)) \o <<Pow2(BitsOf(k))>>

NBit(a, i) ==
    LET q == LimbsOf(i)
    IN  IF Len(a) <= q THEN 0 ELSE (a[q + 1] \div Pow2(BitsOf(i))) % 2

\* the largest digit d + e, 0 <= e < 2^k, with b * (d + e) <= r
RECURSIVE NQuotDigit(_, _, _, _)
NQuotDigit(r, b, d, k) ==
    IF k = 0 THEN d
    ELSE LET c == d + Pow2(k - 1)
         IN  IF NCmp(NMulSmall(b, c), r) <= 0 THEN NQuotDigit(r, b, c, k - 1)
             ELSE NQuotDigit(r, b, d, k - 1)

\* floor(a / b), b > 0: long division, one limb of a at a time from limb i down;
\* r is the remainder of the limbs above i
RECURSIVE NDivLimbs(_, _, _, _)
NDivLimbs(a, b, i, r) ==
    IF i = 0 THEN <<>>
    ELSE LET n == Norm(<<a[i]>> \o r)
             d == NQuotDigit(n, b, 0, 15)
         IN  NDivLimbs(a, b, i - 1, NSub(n, NMulSmall(b, d))) \o <<d>>

NDiv(a, b) == Norm(NDivLimbs(a, b, Len(a), <<>>))

RECURSIVE NFromNat(_)
NFromNat(n) == IF n = 0 THEN <<>> ELSE <<n % LimbBase>> \o NFromNat(n \div LimbBase)

\* ------------------------------------------------------------------------
\* Signed integers: [neg, mag]; zero is never negative.

Z(neg, mag) == [neg |-> neg /\ mag # <<>>, mag |-> mag]
ZFromInt(n) == IF n < 0 THEN Z(TRUE, NFromNat(-n)) ELSE Z(FALSE, NFromNat(n))
ZZero == ZFromInt(0)
ZNeg(x) == Z(~x.neg, x.mag)

ZAdd(x, y) ==
    IF x.neg = y.neg THEN Z(x.neg, NAdd(x.mag, y.mag))
    ELSE IF NCmp(x.mag, y.mag) >= 0 THEN Z(x.neg, NSub(x.mag, y.mag))
    ELSE Z(y.neg, NSub(y.mag, x.mag))

ZSub(x, y) == ZAdd(x, ZNeg(y))
ZMul(x, y) == Z(x.neg # y.neg, NMul(x.mag, y.mag))

\* floor(x / 2^k): the arithmetic right shift of a signed Rust integer
ZShr(x, k) ==
    IF ~x.neg THEN Z(FALSE, NShr(x.mag, k))
    ELSE Z(TRUE, NAdd(NShr(NSub(x.mag, <<1>>), k), <<1>>))

\* x * 2^k, before wrapping
ZShlExact(x, k) == Z(x.neg, NShl(x.mag, k))

\* the quotient of Rust's `/`: truncated toward zero (y # 0)
ZDivTrunc(x, y) == Z(x.neg # y.neg, NDiv(x.mag, y.mag))

ZLess(x, y) == ZSub(x, y).neg

\* x as a `bits` wide two's-complement integer (what wrapping arithmetic and `as` keep)
ZWrap(x, bits) ==
    LET low == NLow(x.mag, bits)
        u   == IF x.neg /\ low # <<>> THEN NSub(NPow2(bits), low) ELSE low
    IN  IF NCmp(u, NPow2(bits - 1)) >= 0 THEN Z(TRUE, NSub(NPow2(bits), u))
        ELSE Z(FALSE, u)

ZFits(x, bits) == ZWrap(x, bits) = x

\* a value of at most 31 bits as a TLC integer
RECURSIVE NToInt(_, _)
NToInt(a, sgn) == IF a = <<>> THEN 0 ELSE sgn * Head(a) + LimbBase * NToInt(Tail(a), sgn)

ZToInt(x) == NToInt(x.mag, IF x.neg THEN -1 ELSE 1)

\* ------------------------------------------------------------------------
\* Bytes and bit operations on non-negative integers.

Byte == 0 .. 255

Shl(a, k) == a * Pow2(k)
Shr(a, k) == a \div Pow2(k)

RECURSIVE BitOr(_, _)
BitOr(a, b) ==
    IF a = 0 THEN b
    ELSE IF b = 0 THEN a
    ELSE (IF a % 2 = 1 \/ b % 2 = 1 THEN 1 ELSE 0) + 2 * BitOr(a \div 2, b \div 2)

RECURSIVE BitAnd(_, _)
BitAnd(a, b) ==
    IF a = 0 \/ b = 0 THEN 0
    ELSE (IF a % 2 = 1 /\ b % 2 = 1 THEN 1 ELSE 0) + 2 * BitAnd(a \div 2, b \div 2)

u16_from_le_bytes(lo, hi) == lo + 256 * hi
i16_from_le_bytes(lo, hi) ==
    LET u == lo + 256 * hi IN IF u >= 32768 THEN u - 65536 ELSE u

\* ------------------------------------------------------------------------
\* Outcomes of a method: Ok(value), Err(message), or a panic.

\* the value of a method that returns `()`; every success value is a record
Unit     == [unit |-> TRUE]
Ok(v)    == [kind |-> "ok", err |-> "", val |-> v]
Err(e)   == [kind |-> "err", err |-> e, val |-> <<>>]
Panic(e) == [kind |-> "panic", err |-> e, val |-> <<>>]

\* One exchange with the transport, as the bus log keeps it: the rppal call, the
\* register (or the target address) it names, whether it succeeded, and the bytes
\* written or returned.
Xfer(call, reg, ok, data) == [call |-> call, reg |-> reg, ok |-> ok, data |-> data]

\* ------------------------------------------------------------------------
\* BMP280 (bmp280.rs)

BMP280_ADDR == 118
REG_CALIBRATION_START == 136
REG_TEMPERATURE_START == 250
REG_PRESSURE_START == 247

NoCalibration == [loaded |-> FALSE]

Calibration(calib_data) ==
    [loaded |-> TRUE,
     dig_t1 |-> u16_from_le_bytes(calib_data[1], calib_data[2]),
     dig_t2 |-> i16_from_le_bytes(calib_data[3], calib_data[4]),
     dig_t3 |-> i16_from_le_bytes(calib_data[5], calib_data[6]),
     dig_p1 |-> u16_from_le_bytes(calib_data[7], calib_data[8]),
     dig_p2 |-> i16_from_le_bytes(calib_data[9], calib_data[10]),
     dig_p3 |-> i16_from_le_bytes(calib_data[11], calib_data[12]),
     dig_p4 |-> i16_from_le_bytes(calib_data[13], calib_data[14]),
     dig_p5 |-> i16_from_le_bytes(calib_data[15], calib_data[16]),
     dig_p6 |-> i16_from_le_bytes(calib_data[17], calib_data[18]),
     dig_p7 |-> i16_from_le_bytes(calib_data[19], calib_data[20]),
     dig_p8 |-> i16_from_le_bytes(calib_data[21], calib_data[22]),
     dig_p9 |-> i16_from_le_bytes(calib_data[23], calib_data[24])]

\* the 20-bit raw ADC code of a 3-byte data register
raw_code(buffer) ==
    BitOr(BitOr(Shl(buffer[1], 12), Shl(buffer[2], 4)), Shr(buffer[3], 4))

\* Fixed-width signed arithmetic. A value is [v, ov]: v is the value wrapped to
\* the width of the Rust type, ov says whether the operation that produced it,
\* or one that produced an operand, left the range of the type (a panic in a
\* build with overflow checks; `<<` and `>>` by less than the width never panic).
Lit(n) == [v |-> ZFromInt(n), ov |-> FALSE]
Checked(bits, exact, ov) == [v |-> ZWrap(exact, bits), ov |-> ov \/ ~ZFits(exact, bits)]
IAdd(bits, a, b) == Checked(bits, ZAdd(a.v, b.v), a.ov \/ b.ov)
ISub(bits, a, b) == Checked(bits, ZSub(a.v, b.v), a.ov \/ b.ov)
IMul(bits, a, b) == Checked(bits, ZMul(a.v, b.v), a.ov \/ b.ov)
IShl(bits, a, k) == [v |-> ZWrap(ZShlExact(a.v, k), bits), ov |-> a.ov]
IShr(a, k) == [v |-> ZShr(a.v, k), ov |-> a.ov]

\* read_temperature: var1, var2, t_fine and temperature (all i32)
temperature_var1(calib, raw_temp) ==
    IShr(IMul(32, ISub(32, Lit(Shr(raw_temp, 3)), IShl(32, Lit(calib.dig_t1), 1)),
                  Lit(calib.dig_t2)),
         11)

temperature_var2(calib, raw_temp) ==
    IShr(IMul(32, IShr(IMul(32, ISub(32, Lit(Shr(raw_temp, 4)), Lit(calib.dig_t1)),
                                ISub(32, Lit(Shr(raw_temp, 4)), Lit(calib.dig_t1))),
                       12),
                  Lit(calib.dig_t3)),
         14)

temperature_t_fine(calib, raw_temp) ==
    IAdd(32, temperature_var1(calib, raw_temp), temperature_var2(calib, raw_temp))

temperature_value(fine) == IShr(IAdd(32, IMul(32, fine, Lit(5)), Lit(128)), 8)

\* temperature is in 1/100 degC: the method returns temperature as f32 / 100.0
TemperatureResult(fine, temperature) ==
    [overflow |-> temperature.ov, t_fine |-> ZToInt(fine.v), temperature |-> ZToInt(temperature.v)]

TemperatureOf(fine) == TemperatureResult(fine, temperature_value(fine))

TemperatureCompensation(calib, buffer) ==
    TemperatureOf(temperature_t_fine(calib, raw_code(buffer)))

\* read_pressure: var1 and var2 (i64) up to the division guard; v is t_fine - 128000
pressure_v(fine) == ISub(64, Lit(fine), Lit(128000))

pressure_var2(calib, v) ==
    IAdd(64, IAdd(64, IMul(64, IMul(64, v, v), Lit(calib.dig_p6)),
                      IShl(64, IMul(64, v, Lit(calib.dig_p5)), 17)),
             IShl(64, Lit(calib.dig_p4), 35))

pressure_var1(calib, v) ==
    IShr(IMul(64, IAdd(64, IShl(64, Lit(1), 47),
                           IAdd(64, IShr(IMul(64, IMul(64, v, v), Lit(calib.dig_p3)), 8),
                                    IShl(64, IMul(64, v, Lit(calib.dig_p2)), 12))),
                  Lit(calib.dig_p1)),
         33)

\* the else branch of read_pressure: the dividend, the quotient p, and the result
pressure_dividend(var2, raw_press) ==
    IMul(64, ISub(64, IShl(64, ISub(64, Lit(1048576), Lit(raw_press)), 31), var2),
             Lit(3125))

pressure_final(calib, p) ==
    IAdd(64, IShr(IAdd(64, IAdd(64, p, IShr(IMul(64, IMul(64, Lit(calib.dig_p9), IShr(p, 13)),
                                                     IShr(p, 13)),
                                            25)),
                           IShr(IMul(64, Lit(calib.dig_p8), p), 19)),
                  8),
             IShl(64, Lit(calib.dig_p7), 4))

PressureOutcome(r, checks) ==
    IF checks /\ r.ov THEN Panic("arithmetic overflow") ELSE Ok(r.v)

\* Rust's `/` panics on a zero divisor and on i64::MIN / -1 in every build
PressureDivide(calib, num, var1, checks) ==
    IF checks /\ num.ov THEN Panic("arithmetic overflow")
    ELSE IF var1.v = ZZero THEN Panic("attempt to divide by zero")
    ELSE IF var1.v = ZFromInt(-1) /\ ~ZFits(ZNeg(num.v), 64)
         THEN Panic("attempt to divide with overflow")
    ELSE PressureOutcome(
             pressure_final(calib, [v |-> ZDivTrunc(num.v, var1.v), ov |-> num.ov]),
             checks)

\* read_pressure without its division guard: var1 is divided by whatever it is
PressureGuard_unguarded(calib, var1, var2, raw_press, checks) ==
    IF checks /\ (var1.ov \/ var2.ov) THEN Panic("arithmetic overflow")
    ELSE PressureDivide(calib, pressure_dividend(var2, raw_press), var1, checks)

\* the division guard of read_pressure: `if var1 == 0 { 0 } else { ... }`
PressureGuard(calib, var1, var2, raw_press, checks) ==
    IF checks /\ (var1.ov \/ var2.ov) THEN Panic("arithmetic overflow")
    ELSE IF var1.v = ZZero THEN Ok(ZZero)
    ELSE PressureDivide(calib, pressure_dividend(var2, raw_press), var1, checks)

PressureFrom(calib, v, raw_press, checks) ==
    PressureGuard(calib, pressure_var1(calib, v), pressure_var2(calib, v), raw_press, checks)

\* The value is `pressure`, in 1/25600 hPa: the method returns
\* pressure as f32 / 25600.0, which is 0.0 exactly when pressure is 0.
PressureCompensation(calib, fine, raw_press, checks) ==
    PressureFrom(calib, pressure_v(fine), raw_press, checks)

\* ------------------------------------------------------------------------
\* State.

VARIABLES
    overflow_checks, \* the build: TRUE when integer overflow panics (debug), FALSE when it wraps
    calib,           \* BMP280.calib: NoCalibration (None) or a Calibration
    t_fine,          \* BMP280.t_fine
    panicked,        \* a panic has aborted the process
    op,              \* the method called last
    ret,             \* what it returned: Ok(value), Err(message) or a panic
    bus,             \* the bus exchanges it issued, in order
    begun,           \* the result of the most recent CCS811::begin call
    t_fine_before,   \* BMP280.t_fine when the method called last was entered
    args             \* the arguments the method called last was given

vars == <<overflow_checks, calib, t_fine, panicked, op, ret, bus, begun, t_fine_before, args>>

\* ------------------------------------------------------------------------
\* What the transport can answer: a failed exchange, or one of the sample payloads.

Failed == [ok |-> FALSE, data |-> <<>>]
Done(data) == [ok |-> TRUE, data |-> data]
Exchange(payloads) == {Failed} \cup {Done(d) : d \in payloads}

\* 24-byte calibration blocks: the datasheet's example coefficients; the same
\* with dig_p1 = 0; the same with dig_p1 = 1, dig_p2 = dig_p3 = -32768 (var1 of
\* the pressure formula is 0 at t_fine = 776048); and a block of 0xFF bytes.
CalibrationBlocks ==
    { <<112, 107, 67, 103, 24, 252, 125, 142, 67, 214, 208, 11,
        39, 11, 140, 0, 249, 255, 140, 60, 248, 198, 112, 23>>,
      <<112, 107, 67, 103, 24, 252, 0, 0, 67, 214, 208, 11,
        39, 11, 140, 0, 249, 255, 140, 60, 248, 198, 112, 23>>,
      <<112, 107, 67, 103, 24, 252, 1, 0, 0, 128, 0, 128,
        39, 11, 140, 0, 249, 255, 140, 60, 248, 198, 112, 23>>,
      <<255, 255, 255, 255, 255, 255, 255, 255, 255, 255, 255, 255,
        255, 255, 255, 255, 255, 255, 255, 255, 255, 255, 255, 255>> }

\* raw temperature bytes: the datasheet's example (519888), 929696, and 0
TemperatureBytes == { <<126, 237, 0>>, <<226, 250, 0>>, <<0, 0, 0>> }

\* raw pressure bytes: the datasheet's example (415148) and the reset value 0x80000
PressureBytes == { <<101, 90, 192>>, <<128, 0, 0>> }

\* ------------------------------------------------------------------------
\* BMP280 methods. self is [calib, t_fine]; each method yields the driver's
\* fields after the call, its outcome and the exchanges it issued. A panic
\* leaves the fields as they were when it struck.

Outcome(self, r, log) == [calib |-> self.calib, t_fine |-> self.t_fine, ret |-> r, bus |-> log]
Fields(o) == [calib |-> o.calib, t_fine |-> o.t_fine]

set_address(xa) == Xfer("set_slave_address", BMP280_ADDR, xa.ok, <<>>)

read_calibration(self, xa, xc) ==
    IF ~xa.ok THEN Outcome(self, Panic("Failed to set I2C address"), <<set_address(xa)>>)
    ELSE IF ~xc.ok
         THEN Outcome(self, Panic("Calibration failed during I2C"),
                      <<set_address(xa), Xfer("write_read", REG_CALIBRATION_START, FALSE, <<>>)>>)
    ELSE Outcome([self EXCEPT !.calib = Calibration(xc.data)], Ok(Unit),
                 <<set_address(xa), Xfer("write_read", REG_CALIBRATION_START, TRUE, xc.data)>>)

temperature_stored(self, c, checks, log) ==
    IF checks /\ c.overflow THEN Outcome(self, Panic("arithmetic overflow"), log)
    ELSE Outcome([self EXCEPT !.t_fine = c.t_fine], Ok([temperature |-> c.temperature]), log)

temperature_read(self, xt, checks, log) ==
    IF ~xt.ok THEN Outcome(self, Panic("Temp read failed on I2C"), log)
    ELSE IF ~self.calib.loaded
         THEN Outcome(self, Panic("Temp read failed; calibration data unknown"), log)
    ELSE temperature_stored(self, TemperatureCompensation(self.calib, xt.data), checks, log)

read_temperature(self, xt, checks) ==
    temperature_read(self, xt, checks,
                     <<Xfer("write_read", REG_TEMPERATURE_START, xt.ok, xt.data)>>)

\* what follows `self.read_calibration()?` in intialize; c is that call's outcome
intialize_rest(c, t) ==
    IF c.ret.kind # "ok" THEN c
    ELSE [t EXCEPT !.bus = c.bus \o t.bus,
                   !.ret = IF t.ret.kind = "ok" THEN Ok(Unit) ELSE t.ret]

intialize_temperature(c, xt, checks) ==
    intialize_rest(c, read_temperature(Fields(c), xt, checks))

intialize(self, xa, xc, xt, checks) ==
    intialize_temperature(read_calibration(self, xa, xc), xt, checks)

\* what follows `self.read_temperature()?` in read_pressure; t is that call's
\* outcome, so t.t_fine is the t_fine the temperature read has just stored
pressure_read(t, xp, checks, log) ==
    IF t.ret.kind # "ok" THEN t
    ELSE IF ~xp.ok THEN Outcome(t, Panic("Pressure read failed during I2C"), log)
    ELSE IF ~t.calib.loaded
         THEN Outcome(t, Panic("Temp read failed; calibration data unknown"), log)
    ELSE Outcome(t, PressureCompensation(t.calib, t.t_fine, raw_code(xp.data), checks), log)

pressure_after(t, xp, checks) ==
    pressure_read(t, xp, checks,
                  t.bus \o <<Xfer("write_read", REG_CALIBRATION_START, xp.ok, xp.data)>>)

\* read_pressure computing from the t_fine it found, not the one its temperature read stored
read_pressure_stale(self, xt, xp, checks) ==
    pressure_after([read_temperature(self, xt, checks) EXCEPT !.t_fine = self.t_fine],
                   xp, checks)

read_pressure(self, xt, xp, checks) ==
    pressure_after(read_temperature(self, xt, checks), xp, checks)

\* ------------------------------------------------------------------------
\* CCS811 (ccs811.rs). The driver has no field but its bus handle: a method
\* yields its outcome and the exchanges it issued.

CCS811_SLAVEADDR_0 == 90
CCS811_STATUS == 0
CCS811_MEAS_MODE == 1
CCS811_ALG_RESULT_DATA == 2
CCS811_ENV_DATA == 5
CCS811_BASELINE == 17
CCS811_HW_ID == 32
CCS811_APP_START == 244
CCS811_SW_RESET == 255
CCS811_STATUS_APP_MODE == 128
CCS811_STATUS_APP_VERIFY == 32

\* Ccs811Mode as u8
Ccs811Mode == [Idle |-> 0, Sec1 |-> 1, Sec10 |-> 2, Sec60 |-> 3]

Call(r, log) == [ret |-> r, bus |-> log]

\* a fraction whose `as u16` wraps a negative value instead of saturating at 0
float_to_bytes_fraction_wrapping(n) ==
    LET f == ((n % 512) - 1) % 65536 IN IF f > 511 THEN 511 ELSE f

\* value is n/512. `as u16` and `as u8` saturate; base and fraction as in the source.
float_to_bytes_fraction(n) ==
    LET f == (n % 512) - 1 IN IF f < 0 THEN 0 ELSE IF f > 511 THEN 511 ELSE f

float_to_bytes_base(n) == IF n \div 512 > 255 THEN 255 ELSE n \div 512

float_to_bytes(n) ==
    << BitOr(Shl(BitAnd(float_to_bytes_base(n), 127), 1),
             Shr(BitAnd(float_to_bytes_fraction(n), 256), 8)),
       BitAnd(float_to_bytes_fraction(n), 255) >>

reset(x) ==
    Call(IF x.ok THEN Ok(Unit) ELSE Err("Couldn't write to I2C"),
         <<Xfer("block_write", CCS811_SW_RESET, x.ok, <<17, 229, 114, 138>>)>>)

app_start(x) ==
    Call(IF x.ok THEN Ok(Unit) ELSE Err("Could not set App start"),
         <<Xfer("write", CCS811_APP_START, x.ok, <<>>)>>)

check_hw_id(x) ==
    Call(IF ~x.ok THEN Err("Couldn't read HWID")
         ELSE IF x.data[1] # 129 THEN Err("HWID of chip is not 0x81")
         ELSE Ok(Unit),
         <<Xfer("smbus_read_byte", CCS811_HW_ID, x.ok, x.data)>>)

check_status(x, expected) ==
    Call(IF ~x.ok THEN Err("Could not read chip status")
         ELSE IF BitAnd(x.data[1], expected) = 0 THEN Err("Chip status is not expected")
         ELSE Ok(Unit),
         <<Xfer("smbus_read_byte", CCS811_STATUS, x.ok, x.data)>>)

\* Result::and: its argument is evaluated before the call, whatever self is
ResultAnd(a, b) == IF a.kind = "ok" THEN b ELSE a

\* reset().and(check_hw_id()).and(app_start()).and(check_status(..)): the four
\* calls are made in this order, each of them always
begin_chain(r1, r2, r3, r4) ==
    Call(ResultAnd(ResultAnd(ResultAnd(r1.ret, r2.ret), r3.ret), r4.ret),
         r1.bus \o r2.bus \o r3.bus \o r4.bus)

begin_addressed(xa, chain) ==
    IF ~xa.ok
    THEN Call(Err("Could not set slave addr"),
              <<Xfer("set_slave_address", CCS811_SLAVEADDR_0, FALSE, <<>>)>>)
    ELSE Call(chain.ret,
              <<Xfer("set_slave_address", CCS811_SLAVEADDR_0, TRUE, <<>>)>> \o chain.bus)

begin(xa, xr, xh, xs, xc) ==
    begin_addressed(xa,
        begin_chain(reset(xr), check_hw_id(xh), app_start(xs),
                    check_status(xc, BitOr(CCS811_STATUS_APP_MODE, CCS811_STATUS_APP_VERIFY))))

start(mode, x) ==
    Call(IF x.ok THEN Ok(Unit) ELSE Err("Could not set mode"),
         <<Xfer("block_write", CCS811_MEAS_MODE, x.ok, <<Shl(mode, 4) % 256>>)>>)

get_baseline(x) ==
    Call(IF x.ok THEN Ok([baseline |-> x.data[1]]) ELSE Err("Could not read baseline"),
         <<Xfer("smbus_read_word", CCS811_BASELINE, x.ok, x.data)>>)

set_baseline(baseline, x) ==
    Call(IF x.ok THEN Ok(Unit) ELSE Err("Could not set baseline"),
         <<Xfer("smbus_write_word", CCS811_BASELINE, x.ok, <<baseline>>)>>)

set_env_data(humidity, temperature, x) ==
    Call(IF x.ok THEN Ok(Unit) ELSE Err("Could npt write env data"),
         <<Xfer("block_write", CCS811_ENV_DATA, x.ok,
                float_to_bytes(humidity) \o float_to_bytes(temperature))>>)

Ccs811Data(buffer) ==
    [e_co2 |-> (buffer[1] * 256 + buffer[2]) % 65536,
     t_voc |-> (buffer[3] * 256 + buffer[4]) % 65536,
     raw   |-> buffer]

read_checked(data) ==
    IF data.t_voc > 1187 \/ data.e_co2 > 8192 THEN Err("The data is above max")
    ELSE Ok(data)

read(x) ==
    Call(IF ~x.ok THEN Err("Could not read chip data")
         ELSE IF x.data[6] # 0 THEN Err("Some error while reading data")
         ELSE read_checked(Ccs811Data(x.data)),
         <<Xfer("block_read", CCS811_ALG_RESULT_DATA, x.ok, x.data)>>)

\* ------------------------------------------------------------------------
\* TMP102 (tmp102.rs)

TMP102_ADDR == 72

\* a decode that extends the sign from bit 15 of the 12-bit value, not bit 11
tmp102_temp_c_unsigned(raw_temp) ==
    IF BitAnd(raw_temp, 32768) = 0 THEN raw_temp
    ELSE i16_from_le_bytes(BitOr(raw_temp, 61440) % 256, BitOr(raw_temp, 61440) \div 256)

\* the result is in 1/16 degC: the method returns the value as f32 * 0.0625
tmp102_temp_c(raw_temp) ==
    IF BitAnd(raw_temp, 2048) = 0 THEN raw_temp
    ELSE i16_from_le_bytes(BitOr(raw_temp, 61440) % 256, BitOr(raw_temp, 61440) \div 256)

tmp102_raw_temp(buffer) == BitOr(Shl(buffer[1], 4), Shr(buffer[2], 4))

\* the result of set_slave_address is dropped
tmp102_read(xa, x) ==
    Call(IF ~x.ok THEN Err("I2C error") ELSE Ok([temp_c |-> tmp102_temp_c(tmp102_raw_temp(x.data))]),
         <<Xfer("set_slave_address", TMP102_ADDR, xa.ok, <<>>),
           Xfer("write_read", 0, x.ok, x.data)>>)

\* ------------------------------------------------------------------------
\* Sample answers of the CCS811 and the TMP102.

HardwareIds == {129, 0}

\* status bytes with every combination of APP_MODE, APP_VERIFY and APP_VALID
StatusBytes == {a + b + c : a \in {0, 128}, b \in {0, 32}, c \in {0, 16}}

Baselines == {0, 33915, 65535}

\* n/512: 0, 1/512, 511/512, 48.5, 126 + 511/512
EnvSamples == {0, 1, 511, 24832, 65023}

\* n/512 with whole part 0, 63, 126 and fraction 0, 1, 256, 257, 511 (of 512)
EnvGrid == { w * 512 + f : w \in {0, 63, 126}, f \in {0, 1, 256, 257, 511} }

\* eCO2 0, 399, 400, 8192, 8193, 65535 and tVOC 0, 1187, 1188, with and without
\* the error byte (buffer[5]) set
ResultBlocks ==
    { <<e[1], e[2], t[1], t[2], 152, err, 3, 232>> :
        e \in {<<0, 0>>, <<1, 143>>, <<1, 144>>, <<32, 0>>, <<32, 1>>, <<255, 255>>},
        t \in {<<0, 0>>, <<4, 163>>, <<4, 164>>},
        err \in {0, 1} }

\* first bytes around 0x00, 0x7F/0x80 and 0xFF, second bytes with either nibble clear and set
Tmp102Bytes ==
    {<<b0, b1>> : b0 \in {0, 1, 2, 25, 100, 126, 127, 128, 129, 200, 254, 255},
                  b1 \in {0, 15, 16, 128, 143, 240, 255}}

\* ------------------------------------------------------------------------
\* Actions: one per public method.

BMP280_self == [calib |-> calib, t_fine |-> t_fine]

BMP280_returns(name, r) ==
    /\ calib' = r.calib
    /\ t_fine' = r.t_fine
    /\ op' = name
    /\ ret' = r.ret
    /\ bus' = r.bus
    /\ panicked' = (r.ret.kind = "panic")
    /\ t_fine_before' = t_fine
    /\ args' = <<>>
    /\ UNCHANGED <<overflow_checks, begun>>

BMP280_intialize ==
    /\ ~panicked
    /\ \E xa \in Exchange({<<>>}), xc \in Exchange(CalibrationBlocks),
          xt \in Exchange(TemperatureBytes) :
          BMP280_returns("BMP280::intialize",
                         intialize(BMP280_self, xa, xc, xt, overflow_checks))

BMP280_read_temperature ==
    /\ ~panicked
    /\ \E xt \in Exchange(TemperatureBytes) :
          BMP280_returns("BMP280::read_temperature",
                         read_temperature(BMP280_self, xt, overflow_checks))

BMP280_read_pressure ==
    /\ ~panicked
    /\ \E xt \in Exchange(TemperatureBytes), xp \in Exchange(PressureBytes) :
          BMP280_returns("BMP280::read_pressure",
                         read_pressure(BMP280_self, xt, xp, overflow_checks))

ReturnsFrom(name, given, r) ==
    /\ op' = name
    /\ ret' = r.ret
    /\ bus' = r.bus
    /\ t_fine_before' = t_fine
    /\ args' = given
    /\ UNCHANGED <<overflow_checks, calib, t_fine, panicked>>

Returns(name, r) == ReturnsFrom(name, <<>>, r)

CCS811_begin ==
    /\ ~panicked
    /\ \E xa \in Exchange({<<>>}), xr \in Exchange({<<>>}),
          xh \in Exchange({<<h>> : h \in HardwareIds}), xs \in Exchange({<<>>}),
          xc \in Exchange({<<b>> : b \in StatusBytes}) :
          /\ Returns("CCS811::begin", begin(xa, xr, xh, xs, xc))
          /\ begun' = (IF begin(xa, xr, xh, xs, xc).ret.kind = "ok" THEN "ok"
                       ELSE begin(xa, xr, xh, xs, xc).ret.err)

CCS811_start ==
    /\ ~panicked
    /\ \E mode \in {Ccs811Mode[m] : m \in DOMAIN Ccs811Mode}, x \in Exchange({<<>>}) :
          ReturnsFrom("CCS811::start", <<mode>>, start(mode, x))
    /\ UNCHANGED begun

CCS811_get_baseline ==
    /\ ~panicked
    /\ \E x \in Exchange({<<b>> : b \in Baselines}) :
          Returns("CCS811::get_baseline", get_baseline(x))
    /\ UNCHANGED begun

CCS811_set_baseline ==
    /\ ~panicked
    /\ \E baseline \in Baselines, x \in Exchange({<<>>}) :
          ReturnsFrom("CCS811::set_baseline", <<baseline>>, set_baseline(baseline, x))
    /\ UNCHANGED begun

set_env_data_called(values) ==
    /\ ~panicked
    /\ \E humidity \in values, temperature \in values, x \in Exchange({<<>>}) :
          ReturnsFrom("CCS811::set_env_data", <<humidity, temperature>>,
                      set_env_data(humidity, temperature, x))
    /\ UNCHANGED begun

CCS811_set_env_data == set_env_data_called(EnvSamples)

\* set_env_data on the grid of values below 127
CCS811_set_env_data_grid == set_env_data_called(EnvGrid)

CCS811_read ==
    /\ ~panicked
    /\ \E x \in Exchange(ResultBlocks) : Returns("CCS811::read", read(x))
    /\ UNCHANGED begun

TMP102_read ==
    /\ ~panicked
    /\ \E xa \in Exchange({<<>>}), x \in Exchange(Tmp102Bytes) :
          Returns("TMP102::read", tmp102_read(xa, x))
    /\ UNCHANGED begun

Init ==
    /\ overflow_checks \in BOOLEAN
    /\ calib = NoCalibration
    /\ t_fine = 0
    /\ panicked = FALSE
    /\ op = "new"
    /\ ret = Ok(Unit)
    /\ bus = <<>>
    /\ begun = "none"
    /\ t_fine_before = 0
    /\ args = <<>>

BMP280_Next ==
    \/ BMP280_intialize
    \/ BMP280_read_temperature
    \/ BMP280_read_pressure

CCS811_Next ==
    \/ CCS811_begin
    \/ CCS811_start
    \/ CCS811_get_baseline
    \/ CCS811_set_baseline
    \/ CCS811_set_env_data
    \/ CCS811_read

TMP102_Next == TMP102_read

Next == BMP280_Next \/ CCS811_Next \/ TMP102_Next

\* the whole program
Spec == Init /\ [][Next]_vars

\* The drivers share no field and each owns its bus handle, so the claims about
\* one driver are checked on the behaviours of that driver alone.
BMP280Spec == Init /\ [][BMP280_Next]_vars
CCS811Spec == Init /\ [][CCS811_Next]_vars
TMP102Spec == Init /\ [][TMP102_Next]_vars

\* set_env_data alone, for the encoding of its two arguments
EnvDataSpec == Init /\ [][CCS811_set_env_data_grid]_vars

\* ------------------------------------------------------------------------
\* Claims.

\* two results are the same outcome: values are compared only between successes
Same(r, s) == r.kind = s.kind /\ r.err = s.err /\ (r.kind = "ok" => r.val = s.val)

BusFailed == \E i \in 1 .. Len(bus) : ~bus[i].ok

\* a step of begin failed: its exchange failed, or the hardware id read is not 0x81
StepFailed(x) == ~x.ok \/ (x.call = "smbus_read_byte" /\ x.reg = CCS811_HW_ID /\ x.data # <<129>>)

BeginOrder ==
    << <<"set_slave_address", CCS811_SLAVEADDR_0>>, <<"block_write", CCS811_SW_RESET>>,
       <<"smbus_read_byte", CCS811_HW_ID>>, <<"write", CCS811_APP_START>>,
       <<"smbus_read_byte", CCS811_STATUS>> >>

\* C1: begin() issues set-address, soft-reset, hardware-id read, application-start
\* and status read in this order, and a step that fails is the last one issued:
\* no exchange of a later step follows it, and begin() returns an error.
C1_begin_aborts_at_first_failure ==
    op = "CCS811::begin" =>
        /\ Len(bus) <= 5
        /\ \A i \in 1 .. Len(bus) : <<bus[i].call, bus[i].reg>> = BeginOrder[i]
        /\ \A i \in 1 .. Len(bus) : StepFailed(bus[i]) => i = Len(bus)
        /\ (\E i \in 1 .. Len(bus) : StepFailed(bus[i])) => ret.kind = "err"

\* C2: begin() succeeds only if the status byte of its last step has both
\* APP_MODE (0x80) and APP_VERIFY (0x20) set; with either bit clear (and the
\* steps before it passed) it fails with the status-mismatch error.
C2_begin_requires_both_status_bits ==
    (op = "CCS811::begin" /\ Len(bus) = 5 /\ bus[5].ok) =>
        /\ ret.kind = "ok" => BitAnd(bus[5].data[1], 160) = 160
        /\ (BitAnd(bus[5].data[1], 160) # 160 /\ \A i \in 1 .. 4 : ~StepFailed(bus[i]))
              => Same(ret, Err("Chip status is not expected"))

\* C3: begin() against a hardware id other than 0x81 fails with the
\* unexpected-hardware-id error, and until a later begin() succeeds every
\* read() fails, whatever the transport returns.
C3_wrong_hw_id_leaves_device_faulted ==
    /\ (op = "CCS811::begin" /\ Len(bus) >= 3 /\ bus[2].ok /\ bus[3].ok /\ bus[3].data # <<129>>)
          => Same(ret, Err("HWID of chip is not 0x81"))
    /\ (begun = "HWID of chip is not 0x81" /\ op = "CCS811::read") => ret.kind = "err"

\* C4: a read_pressure() call that reaches its pressure sample read the
\* temperature register first, and its outcome is the compensation of the raw
\* pressure code it sampled with the t_fine of the raw temperature code it
\* sampled itself: the t_fine an earlier call left plays no part.
C4_pressure_uses_this_calls_temperature ==
    (op = "BMP280::read_pressure" /\ Len(bus) = 2 /\ bus[2].ok) =>
        /\ bus[1].call = "write_read" /\ bus[1].reg = REG_TEMPERATURE_START /\ bus[1].ok
        /\ t_fine = TemperatureCompensation(calib, bus[1].data).t_fine
        /\ Same(ret, PressureCompensation(calib, t_fine, raw_code(bus[2].data), overflow_checks))

\* a read_pressure() call that found a t_fine other than the one it sampled, which
\* would have given another pressure
C4_witness ==
    /\ op = "BMP280::read_pressure" /\ ret.kind = "ok"
    /\ t_fine_before # t_fine
    /\ t_fine_before # 0
    /\ ~Same(ret, PressureCompensation(calib, t_fine_before, raw_code(bus[2].data), overflow_checks))

\* C5: the second exchange of read_pressure(), the one whose 3 bytes become the
\* raw pressure code, addresses the pressure data register 0xF7.
C5_pressure_bytes_come_from_pressure_register ==
    (op = "BMP280::read_pressure" /\ Len(bus) >= 2) =>
        bus[2].call = "write_read" /\ bus[2].reg = REG_PRESSURE_START

\* C6: whenever an exchange of a method fails (setting the target address
\* included), the method returns an error result: it neither panics nor goes on.
C6_bus_failure_is_returned_as_error == BusFailed => (ret.kind = "err" /\ ~panicked)

\* C7: read_temperature() and read_pressure() on a driver without calibration
\* return an error result; they do not panic, and t_fine stays as new() set it.
C7_read_before_calibration_is_an_error ==
    (op \in {"BMP280::read_temperature", "BMP280::read_pressure"} /\ ~calib.loaded /\ ~BusFailed)
        => (ret.kind = "err" /\ ~panicked /\ t_fine = 0)

\* C8: read() returns a measurement only when 400 <= eCO2 <= 8192 and
\* tVOC <= 1187 (eCO2 = b0*256+b1, tVOC = b2*256+b3), and reports the
\* out-of-range error for every block outside these ranges.
C8_read_reports_out_of_range ==
    (op = "CCS811::read" /\ bus[1].ok) =>
        LET e_co2 == bus[1].data[1] * 256 + bus[1].data[2]
            t_voc == bus[1].data[3] * 256 + bus[1].data[4]
            plausible == 400 <= e_co2 /\ e_co2 <= 8192 /\ 0 <= t_voc /\ t_voc <= 1187
        IN  /\ ret.kind = "ok" => (plausible /\ ret.val.e_co2 = e_co2 /\ ret.val.t_voc = t_voc)
            /\ ~plausible => Same(ret, Err("The data is above max"))

\* var1 of the pressure formula for the t_fine the last call stored
LastVar1 == pressure_var1(calib, pressure_v(t_fine))

\* C9: whenever the first-stage denominator var1 of read_pressure() comes out as
\* exactly zero, the call divides nothing and returns exactly 0 as a success,
\* whatever the raw pressure code and the other coefficients.
C9_zero_denominator_returns_zero ==
    (/\ op = "BMP280::read_pressure" /\ Len(bus) = 2 /\ bus[2].ok
     /\ LastVar1.v = ZZero
     /\ ~(overflow_checks /\ LastVar1.ov))
        => Same(ret, Ok(ZZero))

\* var1 is zero although dig_p1 is not: 2^47 is cancelled by the t_fine terms
C9_witness ==
    /\ op = "BMP280::read_pressure" /\ Len(bus) = 2 /\ bus[2].ok
    /\ calib.dig_p1 # 0
    /\ LastVar1.v = ZZero
    /\ Same(ret, Ok(ZZero))

\* C10: TMP102 read() returns, in units of 0.0625 degC, the 12-bit value
\* raw = b0*16 + b1 div 16 of the two bytes it read when raw < 0x800 and
\* raw - 4096 otherwise, whatever was called before.
C10_tmp102_twos_complement ==
    (op = "TMP102::read" /\ bus[2].ok) =>
        LET raw == bus[2].data[1] * 16 + (bus[2].data[2] \div 16)
        IN  Same(ret, Ok([temp_c |-> IF raw < 2048 THEN raw ELSE raw - 4096]))

\* raw 0x800 read as -128.0 degC (-2048 sixteenths)
C10_witness ==
    /\ op = "TMP102::read" /\ bus[2].ok
    /\ bus[2].data[1] = 128 /\ bus[2].data[2] \div 16 = 0
    /\ Same(ret, Ok([temp_c |-> -2048]))

\* the datasheet's inverse of the encoding, in 1/512: (hi >> 1) + (((hi & 1) << 8) | lo) / 512
EnvDecode(hi, lo) == Shr(hi, 1) * 512 + BitOr(Shl(BitAnd(hi, 1), 8), lo)

\* the i-th argument of the last set_env_data call decodes to within 1/512 of itself
EnvRoundTrip(i) ==
    LET hi == bus[1].data[2 * i - 1]
        lo == bus[1].data[2 * i]
    IN  /\ EnvDecode(hi, lo) - args[i] \in {-1, 0, 1}
        /\ Shr(hi, 1) <= 127
        /\ BitOr(Shl(BitAnd(hi, 1), 8), lo) <= 511

\* C11: for every value n/512 below 127 given to set_env_data, the two bytes
\* float_to_bytes puts on the bus decode, by the datasheet's inverse formula, to
\* a value within 1/512 of it; the encoded whole part is at most 127 and the
\* encoded fraction at most 511.
C11_env_data_round_trip ==
    op = "CCS811::set_env_data" =>
        \A i \in {1, 2} : (0 <= args[i] /\ args[i] < 127 * 512) => EnvRoundTrip(i)

\* humidity 126 + 257/512 is sent as 126 + 256/512 (bit 8 of the fraction in hi),
\* temperature 0 as 0 (the fraction saturates at 0)
C11_witness ==
    /\ op = "CCS811::set_env_data"
    /\ args = <<126 * 512 + 257, 0>>
    /\ bus[1].data = <<253, 0, 0, 0>>
    /\ EnvDecode(bus[1].data[1], bus[1].data[2]) = 126 * 512 + 256
    /\ EnvDecode(bus[1].data[3], bus[1].data[4]) = 0
====
